---------------------------- MODULE Spec2Model ----------------------------
(***************************************************************************)
(* fx_convert (apps/fx_tools/fx_convert.cpp): guessing of the FASTQ        *)
(* quality scale, the quality conversion table and the conversion run.     *)
(*                                                                         *)
(* Quality bytes are kept as unsigned values 0..255; a `char` read from a  *)
(* quality string is their signed 8 bit value (ToChar).  Doubles are kept  *)
(* in fixed point, in thousandths (Milli); the values of the libm calls    *)
(* pow and log10 at the points the table is built from are those of IEEE   *)
(* binary64.  The records are handed over by the SeqAn record reader,      *)
(* which is not part of this repository: a record is (id, seq, qual).      *)
(***************************************************************************)
EXTENDS Integers, Sequences, FiniteSets, TLC

(***************************************************************************)
(* Bounds of the model.                                                    *)
(***************************************************************************)
MaxRecords == 2

\* Quality bytes the input is built from: the ends of the ranges the guess
\* distinguishes (58 of [33,58], 63 of [59,63], 74 of [64,74], 75 of
\* [75,104]) and one byte outside of [33,104], which is above 104 as a byte
\* and below 33 as a char.
QualBytes == {58, 63, 74, 75, 200}

\* Identifier of the k-th record of the input.
InputIds == <<"b", "a", "2", "c">>

(***************************************************************************)
(* FxConvertOptions::Format and QualityFormatGuess::BestGuess.             *)
(***************************************************************************)
Format == {"AUTO", "FASTA", "FASTQ_ILLUMINA", "FASTQ_SANGER", "FASTQ_SOLEXA"}

TargetFormat == {"FASTA", "FASTQ_ILLUMINA", "FASTQ_SANGER", "FASTQ_SOLEXA"}

BestGuess == {"NONE", "SANGER", "SOLEXA", "ILLUMINA"}

Concrete == {"SANGER", "SOLEXA", "ILLUMINA"}

VARIABLES
    options,                  \* FxConvertOptions of the run
    tagId,                    \* AutoSeqStreamFormat::tagId: 0 unknown, 1 FASTA, 2 FASTQ
    records,                  \* the records of the input, in file order
    pc,                       \* position of runConvert
    pos,                      \* index of the next record the reader yields
    qualityFormatGuess,       \* the three flags
    formatGuess,              \* source quality scale
    outFormat,                \* target quality scale, NONE for FASTA
    qualityConversionTable,   \* <<>> until built, then byte 0..255 -> char
    num,                      \* counter of renameToNumbers
    out,                      \* what was written to the output stream
    err,                      \* diagnostics, in order
    status,                   \* return value of runConvert, -1 while running
    updated,                  \* quality strings updateQualityFormatGuess was called on
    bestGuessCalls,           \* number of calls of bestGuess
    failure,                  \* the failed call of the reader or writer: "none",
                              \* "eof" (tolerated), "read" or "write"
    faidx,                    \* the run of fx_faidx
    trimmer                   \* the run of fx_trimmer

\* The variables of the run of fx_convert.
convertVars == <<options, tagId, records, pc, pos, qualityFormatGuess, formatGuess,
                 outFormat, qualityConversionTable, num, out, err, status, updated,
                 bestGuessCalls, failure>>

vars == <<convertVars, faidx, trimmer>>

Byte == 0..255

\* char c = *it: the signed 8 bit value of a byte.
ToChar(b) == IF b >= 128 THEN b - 256 ELSE b

(***************************************************************************)
(* Quality guessing.                                                       *)
(***************************************************************************)
\* QualityFormatGuess(): all three formats are possible.
NewQualityFormatGuess == [sanger |-> TRUE, solexa |-> TRUE, illumina |-> TRUE]

BoolToInt(b) == IF b THEN 1 ELSE 0

\* bestGuess that takes the first possible format when several remain.
bestGuessFirst(guess) ==
    IF BoolToInt(guess.sanger) + BoolToInt(guess.solexa) + BoolToInt(guess.illumina) = 0
    THEN "NONE"
    ELSE IF guess.sanger THEN "SANGER"
    ELSE IF guess.solexa THEN "SOLEXA"
    ELSE "ILLUMINA"

bestGuess(guess) ==
    IF BoolToInt(guess.sanger) + BoolToInt(guess.solexa) + BoolToInt(guess.illumina) # 1
    THEN "NONE"
    ELSE IF guess.sanger THEN "SANGER"
    ELSE IF guess.solexa THEN "SOLEXA"
    ELSE IF guess.illumina THEN "ILLUMINA"
    ELSE "NONE"

\* The guard of the error return of updateQualityFormatGuess.
InvalidQuality(c) == c < 33 /\ c > 104

\* NarrowGuess with the bound of Illumina used for Solexa as well.
NarrowGuessSolexa64(guess, c) ==
    [sanger   |-> IF c > 74 THEN FALSE ELSE guess.sanger,
     solexa   |-> IF c < 64 THEN FALSE ELSE guess.solexa,
     illumina |-> IF c < 64 THEN FALSE ELSE guess.illumina]

\* NarrowGuess that assigns the flags instead of clearing them.
NarrowGuessAssign(guess, c) ==
    [sanger |-> ~(c > 74), solexa |-> ~(c < 59), illumina |-> ~(c < 64)]

\* NarrowGuess with the lower bound of Sanger used for Solexa.
NarrowGuessSolexa33(guess, c) ==
    [sanger   |-> IF c > 74 THEN FALSE ELSE guess.sanger,
     solexa   |-> IF c < 33 THEN FALSE ELSE guess.solexa,
     illumina |-> IF c < 64 THEN FALSE ELSE guess.illumina]

\* NarrowGuess with the nominal maximum of Sanger, 73.
NarrowGuessSanger73(guess, c) ==
    [sanger   |-> IF c > 73 THEN FALSE ELSE guess.sanger,
     solexa   |-> IF c < 59 THEN FALSE ELSE guess.solexa,
     illumina |-> IF c < 64 THEN FALSE ELSE guess.illumina]

\* NarrowGuess with the bounds of Solexa and Illumina swapped.
NarrowGuessSwapped(guess, c) ==
    [sanger   |-> IF c > 74 THEN FALSE ELSE guess.sanger,
     solexa   |-> IF c < 64 THEN FALSE ELSE guess.solexa,
     illumina |-> IF c < 59 THEN FALSE ELSE guess.illumina]

\* The three narrowing statements for one char.
NarrowGuess(guess, c) ==
    [sanger   |-> IF c > 74 THEN FALSE ELSE guess.sanger,
     solexa   |-> IF c < 59 THEN FALSE ELSE guess.solexa,
     illumina |-> IF c < 64 THEN FALSE ELSE guess.illumina]

RECURSIVE UpdateFrom(_, _, _)
UpdateFrom(guess, quals, k) ==
    IF k > Len(quals)
    THEN [ok |-> TRUE, guess |-> guess, bad |-> 0]
    ELSE LET c == ToChar(quals[k]) IN
         IF InvalidQuality(c)
         THEN [ok |-> FALSE, guess |-> guess, bad |-> c]
         ELSE UpdateFrom(NarrowGuess(guess, c), quals, k + 1)

\* ok: the return value; guess: the flags afterwards; bad: the char reported.
updateQualityFormatGuess(guess, quals) == UpdateFrom(guess, quals, 1)

(***************************************************************************)
(* Quality conversion.                                                     *)
(*                                                                         *)
(* The error probability p of a quality char is kept by the expression     *)
(* that computed it: kind "pow10" is p = pow(10.0, k / -10.0), kind "odds" *)
(* is p = 1.0 / (pow(10, k / 10.0) + 1).  A double derived from p is kept  *)
(* in thousandths, rounded down (Milli per unit).                          *)
(***************************************************************************)
Milli == 1000

\* unsigned from, to: the source values the table is computed for.
From(source) ==
    CASE source = "SANGER"   -> 33
      [] source = "SOLEXA"   -> 59
      [] source = "ILLUMINA" -> 64

To == 126

\* DefaultFill that takes the minimum for every byte.
DefaultFillMinimum(target, from, i) ==
    CASE target = "SANGER"   -> 33
      [] target = "SOLEXA"   -> 59
      [] target = "ILLUMINA" -> 64

\* "Initialize, everything with minimum or maximum value."
DefaultFill(target, from, i) ==
    CASE target = "SANGER"   -> IF i <= from THEN 33 ELSE 73
      [] target = "SOLEXA"   -> IF i <= from THEN 59 ELSE 104
      [] target = "ILLUMINA" -> IF i <= from THEN 64 ELSE 104

\* "Convert from quality i to error probability."
Probability(source, i) ==
    CASE source = "SANGER"   -> [kind |-> "pow10", k |-> i - 33]
      [] source = "SOLEXA"   -> [kind |-> "odds",  k |-> i - 64]
      [] source = "ILLUMINA" -> [kind |-> "pow10", k |-> i - 64]

\* SEQAN_ASSERT_GEQ(p, 0.0) and SEQAN_ASSERT_LEQ(p, 1.0).
ProbabilityInRange(p) == p.kind = "odds" \/ p.k >= 0

\* 10 * log10(pow(10, k / 10.0) + 1) in thousandths, for k = -5 .. 62.
Log10Sum ==
    <<
      1193, 1455, 1764, 2124, 2539, 3010, 3539, 4124, 4764, 5455,
      6193, 6973, 7790, 8638, 9514, 10413, 11331, 12265, 13212, 14169,
      15135, 16107, 17085, 18068, 19054, 20043, 21034, 22027, 23021, 24017,
      25013, 26010, 27008, 28006, 29005, 30004, 31003, 32002, 33002, 34001,
      35001, 36001, 37000, 38000, 39000, 40000, 41000, 42000, 43000, 44000,
      45000, 46000, 47000, 48000, 49000, 50000, 51000, 52000, 53000, 54000,
      55000, 56000, 57000, 58000, 59000, 60000, 61000, 62000
    >>

\* 10 * log10(pow(10, k / 10.0) - 1) in thousandths, for k = 1 .. 93.
Log10Diff ==
    <<
      -5869, -2330, -21, 1795, 3349, 4743, 6033, 7250, 8415, 9542,
      10640, 11716, 12776, 13823, 14860, 15889, 16912, 17930, 18944, 19956,
      20965, 21972, 22978, 23982, 24986, 25989, 26991, 27993, 28994, 29995,
      30996, 31997, 32997, 33998, 34998, 35998, 36999, 37999, 38999, 39999,
      40999, 41999, 42999, 43999, 44999, 45999, 46999, 47999, 48999, 49999,
      50999, 51999, 52999, 53999, 54999, 55999, 56999, 57999, 58999, 59999,
      60999, 61999, 62999, 63999, 64999, 65999, 66999, 67999, 68999, 69999,
      70999, 71999, 72999, 73999, 74999, 75999, 76999, 77999, 78999, 79999,
      80999, 81999, 82999, 83999, 84999, 85999, 86999, 87999, 88999, 89999,
      90999, 91999, 92999
    >>

\* -10.0 * log10(p) in thousandths.  For p = pow(10.0, k / -10.0) the double
\* is k itself, except for k = 2, where it is 1.9999999999999998.
NegTenLog10(p) ==
    IF p.kind = "pow10"
    THEN IF p.k = 2 THEN 2 * Milli - 1 ELSE p.k * Milli
    ELSE Log10Sum[p.k + 6]

\* p / (1.0 - p) is a division by zero for p = 1.0: the double is +inf, its
\* log10 is +inf and the product with -10 is -inf.
OddsInfinite(p) == p.kind = "pow10" /\ p.k = 0

\* -10 * log10(p / (1.0 - p)) in thousandths, where it is finite.
NegTenLog10Odds(p) ==
    IF p.kind = "odds" THEN p.k * Milli ELSE Log10Diff[p.k]

\* int q = <double>: the conversion truncates toward zero.
DoubleToInt(m) == IF m >= 0 THEN m \div Milli ELSE -((-m) \div Milli)

\* The int a conversion of -inf may give (undefined behaviour): INT_MIN as
\* on x86, or any other value; the extremes and zero stand for them.
UndefinedInts == {-2147483647 - 1, 0, 2147483647}

\* Quality without the offset of the Sanger scale.
QualityNoOffset(target, p, ub) ==
    CASE target = "SANGER" ->
            LET q0 == DoubleToInt(NegTenLog10(p))
                q1 == IF q0 < 0 THEN 0 ELSE q0
                q2 == IF q1 > 93 THEN 93 ELSE q1
            IN  q2
      [] target = "SOLEXA" ->
            LET q0 == IF OddsInfinite(p) THEN ub ELSE DoubleToInt(NegTenLog10Odds(p))
                q1 == IF q0 < -5 THEN -5 ELSE q0
                q2 == IF q1 > 62 THEN 62 ELSE q1
            IN  q2 + 64
      [] target = "ILLUMINA" ->
            LET q0 == DoubleToInt(NegTenLog10(p))
                q1 == IF q0 < 0 THEN 62 ELSE q0
                q2 == IF q1 > 0 THEN 62 ELSE q1
            IN  q2 + 64

\* Quality with the offset 3 in place of 33 for the Sanger scale.
QualitySangerOffset3(target, p, ub) ==
    IF target = "SANGER"
    THEN QualityNoOffset(target, p, ub) + 3
    ELSE QualityNoOffset(target, p, ub)

\* Quality whose Illumina branch clamps to [0,62].
QualityIlluminaClamped(target, p, ub) ==
    IF target = "ILLUMINA"
    THEN LET q0 == DoubleToInt(NegTenLog10(p))
             q1 == IF q0 < 0 THEN 0 ELSE q0
             q2 == IF q1 > 62 THEN 62 ELSE q1
         IN  q2 + 64
    ELSE QualitySangerOffset3(target, p, ub)

\* Quality that falls where it should rise.
QualityInverted(target, p, ub) ==
    IF target = "SANGER"
    THEN 126 - QualityNoOffset(target, p, ub)
    ELSE 190 - QualityNoOffset(target, p, ub)

\* "Now convert from error probability to quality."  ub: the int an
\* undefined conversion yields.
Quality(target, p, ub) ==
    CASE target = "SANGER" ->
            LET q0 == DoubleToInt(NegTenLog10(p))
                q1 == IF q0 < 0 THEN 0 ELSE q0
                q2 == IF q1 > 93 THEN 93 ELSE q1
            IN  q2 + 33
      [] target = "SOLEXA" ->
            LET q0 == IF OddsInfinite(p) THEN ub ELSE DoubleToInt(NegTenLog10Odds(p))
                q1 == IF q0 < -5 THEN -5 ELSE q0
                q2 == IF q1 > 62 THEN 62 ELSE q1
            IN  q2 + 64
      [] target = "ILLUMINA" ->
            LET q0 == DoubleToInt(NegTenLog10(p))
                q1 == IF q0 < 0 THEN 62 ELSE q0
                q2 == IF q1 > 0 THEN 62 ELSE q1
            IN  q2 + 64

\* SEQAN_ASSERT_GT(q, 0) and SEQAN_ASSERT_LT(q, 255).
QualityInRange(q) == q > 0 /\ q < 255

\* static_cast<char>(q)
IntToChar(q) == ToChar(q % 256)

\* table: the 256 entries after the call; failed: an assertion failed.
buildConversionTable(source, target, ub) ==
    LET from == From(source)
        p(i) == Probability(source, i)
        q(i) == Quality(target, p(i), ub)
    IN  [table  |-> [i \in Byte |->
                        IF i >= from /\ i <= To
                        THEN IntToChar(q(i))
                        ELSE DefaultFill(target, from, i)],
         failed |-> \E i \in from..To :
                        ~ProbabilityInRange(p(i)) \/ ~QualityInRange(q(i))]

(***************************************************************************)
(* The input.                                                              *)
(***************************************************************************)
\* Total number of quality bytes of an input.
MaxBytes == 2

\* The quality strings of a read: at least one and at most b bytes.
Quals(b) == UNION {[1..n -> QualBytes] : n \in 1..b}

\* The bases of a FASTQ record: as many as quality bytes, N where the
\* quality is the lowest.
SeqOf(qual) == [j \in 1..Len(qual) |-> IF qual[j] = 58 THEN "N" ELSE "A"]

\* The lists of at most n quality strings with at most b bytes in total.
RECURSIVE QualLists(_, _)
QualLists(n, b) ==
    {<<>>} \cup
    (IF n = 0 THEN {}
     ELSE UNION {{<<q>> \o rest : rest \in QualLists(n - 1, b - Len(q))} : q \in Quals(b)})

FastqInputs ==
    {[k \in 1..Len(qs) |-> [id |-> InputIds[k], seq |-> SeqOf(qs[k]), qual |-> qs[k]]] :
        qs \in QualLists(MaxRecords, MaxBytes)}

FastaSeqs == {<<"A", "C">>, <<"N">>}

FastaInputs ==
    {[k \in 1..Len(ss) |-> [id |-> InputIds[k], seq |-> ss[k], qual |-> <<>>]] :
        ss \in UNION {[1..n -> FastaSeqs] : n \in 0..MaxRecords}}

Inputs(tag) ==
    CASE tag = 2 -> FastqInputs
      [] tag = 1 -> FastaInputs
      [] OTHER   -> {<<>>}

\* The state of a tool that is not run.
NotRun == [pc |-> "off"]

(***************************************************************************)
(* runConvert.                                                             *)
(***************************************************************************)
Init ==
    /\ options \in [sourceFormat : Format, targetFormat : TargetFormat,
                    renameToNumbers : BOOLEAN, keepNs : BOOLEAN, guessFormat : BOOLEAN]
    /\ tagId \in {0, 1, 2}
    /\ records \in Inputs(tagId)
    /\ pc = "check"
    /\ pos = 1
    /\ qualityFormatGuess = NewQualityFormatGuess
    /\ formatGuess = "NONE"
    /\ outFormat = "NONE"
    /\ qualityConversionTable = <<>>
    /\ num = 1
    /\ out = <<>>
    /\ err = <<>>
    /\ status = -1
    /\ updated = <<>>
    /\ bestGuessCalls = 0
    /\ failure = "none"
    /\ faidx = NotRun
    /\ trimmer = NotRun

\* return <code>
Return(code) == status' = code /\ pc' = "done"

\* CheckFormat that takes the FASTA branch only if no FASTQ scale was given.
CheckFormatBySource ==
    /\ pc = "check"
    /\ IF tagId = 0
       THEN /\ err' = Append(err, "ERROR: Cannot determine file format.")
            /\ Return(1)
       ELSE /\ pc' = IF tagId # 2 /\ options.sourceFormat \in {"AUTO", "FASTA"} THEN "fasta"
                     ELSE IF options.sourceFormat = "AUTO" THEN "scan" ELSE "given"
            /\ UNCHANGED <<err, status>>
    /\ UNCHANGED <<options, tagId, records, pos, qualityFormatGuess, formatGuess,
                   outFormat, qualityConversionTable, num, out, updated, bestGuessCalls,
                   failure, faidx, trimmer>>

\* checkStreamFormat and the dispatch on tagId and options.sourceFormat.
CheckFormat ==
    /\ pc = "check"
    /\ IF tagId = 0
       THEN /\ err' = Append(err, "ERROR: Cannot determine file format.")
            /\ Return(1)
       ELSE /\ pc' = IF tagId # 2 THEN "fasta"
                     ELSE IF options.sourceFormat = "AUTO" THEN "scan" ELSE "given"
            /\ UNCHANGED <<err, status>>
    /\ UNCHANGED <<options, tagId, records, pos, qualityFormatGuess, formatGuess,
                   outFormat, qualityConversionTable, num, out, updated, bestGuessCalls, failure, faidx, trimmer>>

\* The results readRecord can have for the k-th record: 0, EOF_BEFORE_SUCCESS
\* where the input ends within its last record, or another error code.  An
\* input found cut short once is cut short when it is read again.
ReadResults(k) ==
    IF failure = "eof" /\ k = Len(records)
    THEN {"EOF_BEFORE_SUCCESS"}
    ELSE {"OK", "ERROR"} \cup (IF k = Len(records) THEN {"EOF_BEFORE_SUCCESS"} ELSE {})

\* The results writeRecord can have: 0 or an error code.
WriteResults == {"OK", "ERROR"}

\* ScanReadFailed with the second comparison inverted.
ScanReadFailedAtEof(res) == res # "OK" /\ res = "EOF_BEFORE_SUCCESS"

\* res != 0 && res != seqan::EOF_BEFORE_SUCCESS
ScanReadFailed(res) == res # "OK" /\ res # "EOF_BEFORE_SUCCESS"

\* One iteration of the loop that guesses: readRecord, updateQualityFormatGuess.
ScanRecord ==
    /\ pc = "scan"
    /\ pos <= Len(records)
    /\ \E res \in ReadResults(pos) :
          IF ScanReadFailed(res)
          THEN /\ err' = Append(err, "Error reading input!")
               /\ Return(1)
               /\ failure' = "read"
               /\ UNCHANGED <<pos, updated, qualityFormatGuess>>
          ELSE LET qual == records[pos].qual
                   r    == updateQualityFormatGuess(qualityFormatGuess, qual)
               IN  /\ updated' = Append(updated, qual)
                   /\ qualityFormatGuess' = r.guess
                   /\ failure' = CASE res = "OK"                 -> failure
                                   [] res = "EOF_BEFORE_SUCCESS" -> "eof"
                                   [] OTHER                      -> "read"
                   /\ IF r.ok
                      THEN /\ pos' = pos + 1
                           /\ UNCHANGED <<pc, status, err>>
                      ELSE /\ err' = Append(err, "ERROR: Invalid quality " \o ToString(r.bad) \o "!")
                           /\ Return(1)
                           /\ UNCHANGED pos
    /\ UNCHANGED <<options, tagId, records, formatGuess, outFormat,
                   qualityConversionTable, num, out, bestGuessCalls, faidx, trimmer>>

\* ScanEnd that does not wait for the end of the input.
ScanEndEarly ==
    /\ pc = "scan"
    /\ pos' = 1
    /\ pc' = "guess"
    /\ UNCHANGED <<options, tagId, records, qualityFormatGuess, formatGuess, outFormat,
                   qualityConversionTable, num, out, err, status, updated, bestGuessCalls, failure, faidx, trimmer>>

\* ScanEnd that leaves the reader at the end of the input.
ScanEndNoRewind ==
    /\ pc = "scan"
    /\ pos > Len(records)
    /\ pc' = "guess"
    /\ UNCHANGED <<options, tagId, records, pos, qualityFormatGuess, formatGuess, outFormat,
                   qualityConversionTable, num, out, err, status, updated, bestGuessCalls,
                   failure, faidx, trimmer>>

\* atEnd(reader) ends the loop; leaving the scope of the limiter puts the
\* reader back to the first record.
ScanEnd ==
    /\ pc = "scan"
    /\ pos > Len(records)
    /\ pos' = 1
    /\ pc' = "guess"
    /\ UNCHANGED <<options, tagId, records, qualityFormatGuess, formatGuess, outFormat,
                   qualityConversionTable, num, out, err, status, updated, bestGuessCalls, failure, faidx, trimmer>>

\* The "Could be ..." lines.
CouldBe(guess) ==
    (IF guess.sanger THEN <<"Could be Sanger.">> ELSE <<>>)
    \o (IF guess.solexa THEN <<"Could be Solexa.">> ELSE <<>>)
    \o (IF guess.illumina THEN <<"Could be Illumina.">> ELSE <<>>)

\* GuessFormat without the return after the error message.
GuessFormatFallThrough ==
    /\ pc = "guess"
    /\ formatGuess' = bestGuess(qualityFormatGuess)
    /\ bestGuessCalls' = bestGuessCalls + 1
    /\ err' = IF formatGuess' = "NONE"
              THEN err \o <<"ERROR: Could not guess FASTQ quality scale unambiguously!">>
                       \o CouldBe(qualityFormatGuess)
              ELSE err
    /\ pc' = "format"
    /\ UNCHANGED <<options, tagId, records, pos, qualityFormatGuess, outFormat,
                   qualityConversionTable, num, out, status, updated, failure, faidx, trimmer>>

\* formatGuess = bestGuess(qualityFormatGuess) and the error return.
GuessFormat ==
    /\ pc = "guess"
    /\ formatGuess' = bestGuess(qualityFormatGuess)
    /\ bestGuessCalls' = bestGuessCalls + 1
    /\ IF formatGuess' = "NONE"
       THEN /\ err' = err \o <<"ERROR: Could not guess FASTQ quality scale unambiguously!">>
                          \o CouldBe(qualityFormatGuess)
            /\ Return(1)
       ELSE /\ pc' = "format"
            /\ UNCHANGED <<err, status>>
    /\ UNCHANGED <<options, tagId, records, pos, qualityFormatGuess, outFormat,
                   qualityConversionTable, num, out, updated, failure, faidx, trimmer>>

\* switch (options.sourceFormat); the default is SEQAN_FAIL.
GivenFormat ==
    /\ pc = "given"
    /\ IF options.sourceFormat = "FASTA"
       THEN /\ err' = Append(err, "Should never reach here!")
            /\ pc' = "abort"
            /\ UNCHANGED formatGuess
       ELSE /\ formatGuess' = CASE options.sourceFormat = "FASTQ_ILLUMINA" -> "ILLUMINA"
                                [] options.sourceFormat = "FASTQ_SANGER"   -> "SANGER"
                                [] options.sourceFormat = "FASTQ_SOLEXA"   -> "SOLEXA"
            /\ pc' = "format"
            /\ UNCHANGED err
    /\ UNCHANGED <<options, tagId, records, pos, qualityFormatGuess, outFormat,
                   qualityConversionTable, num, out, status, updated, bestGuessCalls, failure, faidx, trimmer>>

\* seqan::CharString format
FormatName(guess) ==
    CASE guess = "SOLEXA"   -> "text/x-fastq-solexa"
      [] guess = "ILLUMINA" -> "text/x-fastq-illumina"
      [] OTHER              -> "text/x-fastq-sanger"

\* seqan::streamPut(out, text)
Put(text) == [kind |-> "text", text |-> text]

\* writeRecord(out, id, seq, seqan::Fasta())
FastaRecord(id, seq) == [kind |-> "fasta", id |-> id, seq |-> seq]

\* writeRecord(out, id, seq, qual, seqan::Fastq())
FastqRecord(id, seq, qual) == [kind |-> "fastq", id |-> id, seq |-> seq, qual |-> qual]

\* "If we only wanted to guess the file format then we are done here."
PrintFormat ==
    /\ pc = "format"
    /\ options.guessFormat
    /\ out' = out \o <<Put("content-type: "), Put(FormatName(formatGuess)), Put("\n")>>
    /\ Return(0)
    /\ UNCHANGED <<options, tagId, records, pos, qualityFormatGuess, formatGuess, outFormat,
                   qualityConversionTable, num, err, updated, bestGuessCalls, failure, faidx, trimmer>>

\* OutFormat whose default is the scale of FASTQ_SANGER.
OutFormatSanger(targetFormat) ==
    CASE targetFormat = "FASTQ_ILLUMINA" -> "ILLUMINA"
      [] targetFormat = "FASTQ_SOLEXA"   -> "SOLEXA"
      [] OTHER                           -> "SANGER"

\* switch (options.targetFormat)
OutFormat(targetFormat) ==
    CASE targetFormat = "FASTQ_ILLUMINA" -> "ILLUMINA"
      [] targetFormat = "FASTQ_SANGER"   -> "SANGER"
      [] targetFormat = "FASTQ_SOLEXA"   -> "SOLEXA"
      [] OTHER                           -> "NONE"

\* "Compute quality conversion table."  A failed assertion aborts.
ComputeTable ==
    /\ pc = "format"
    /\ ~options.guessFormat
    /\ outFormat' = OutFormat(options.targetFormat)
    /\ IF outFormat' = "NONE"
       THEN /\ pc' = "rewrite"
            /\ UNCHANGED <<qualityConversionTable, err>>
       ELSE \E ub \in UndefinedInts :
                LET b == buildConversionTable(formatGuess, outFormat', ub)
                IN  /\ qualityConversionTable' = b.table
                    /\ pc' = IF b.failed THEN "abort" ELSE "rewrite"
                    /\ err' = IF b.failed THEN Append(err, "Assertion failed!") ELSE err
    /\ UNCHANGED <<options, tagId, records, pos, qualityFormatGuess, formatGuess,
                   num, out, status, updated, bestGuessCalls, failure, faidx, trimmer>>

\* "Replace sequence identifier if requested.": ss << num++
NewId(id) == IF options.renameToNumbers THEN ToString(num) ELSE id

\* NextNum without the increment.
NextNumStuck == num

\* num++
NextNum == IF options.renameToNumbers THEN num + 1 ELSE num

\* The byte of a char of the table.
CharToByte(c) == c % 256

\* ConvertQual that reads the table with the low 7 bits of the byte.
ConvertQualSevenBit(table, qual) == [j \in 1..Len(qual) |-> CharToByte(table[qual[j] % 128])]

\* *it = qualityConversionTable[static_cast<__uint8>(*it)] for every char.
ConvertQual(table, qual) == [j \in 1..Len(qual) |-> CharToByte(table[qual[j]])]

\* Converted that applies the table whatever the two scales are.
ConvertedAlways(qual) == ConvertQual(qualityConversionTable, qual)

\* "Convert qualities if necessary."
Converted(qual) ==
    IF formatGuess # outFormat THEN ConvertQual(qualityConversionTable, qual) ELSE qual

\* The record the rewriting loop writes: FASTA for the target FASTA, else FASTQ.
Rewritten(rec) ==
    IF outFormat = "NONE"
    THEN FastaRecord(NewId(rec.id), rec.seq)
    ELSE FastqRecord(NewId(rec.id), rec.seq, Converted(rec.qual))

\* Forward that drops a record with an N unless keepNs is set.
ForwardUnlessN(item, readError, writeError) ==
    \E res \in ReadResults(pos), wres \in WriteResults :
        /\ pos' = pos + 1
        /\ IF res # "OK"
           THEN /\ err' = Append(err, readError)
                /\ Return(1)
                /\ failure' = "read"
                /\ UNCHANGED <<num, out>>
           ELSE IF ~options.keepNs /\ (\E j \in 1..Len(item.seq) : item.seq[j] = "N")
           THEN UNCHANGED <<num, out, pc, status, err, failure>>
           ELSE /\ num' = NextNum
                /\ IF wres # "OK"
                   THEN /\ err' = Append(err, writeError)
                        /\ Return(1)
                        /\ failure' = "write"
                        /\ UNCHANGED out
                   ELSE /\ out' = Append(out, item)
                        /\ UNCHANGED <<pc, status, err, failure>>

\* One iteration of a writing loop: a failed read or a failed write prints
\* its message and returns 1, else the record is written.
Forward(item, readError, writeError) ==
    \E res \in ReadResults(pos), wres \in WriteResults :
        /\ pos' = pos + 1
        /\ IF res # "OK"
           THEN /\ err' = Append(err, readError)
                /\ Return(1)
                /\ failure' = "read"
                /\ UNCHANGED <<num, out>>
           ELSE /\ num' = NextNum
                /\ IF wres # "OK"
                   THEN /\ err' = Append(err, writeError)
                        /\ Return(1)
                        /\ failure' = "write"
                        /\ UNCHANGED out
                   ELSE /\ out' = Append(out, item)
                        /\ UNCHANGED <<pc, status, err, failure>>

\* One iteration of "Now, read the whole file and write out."
WriteRecord ==
    /\ pc = "rewrite"
    /\ pos <= Len(records)
    /\ Forward(Rewritten(records[pos]), "ERROR: Problem reading FASTQ file!",
               IF outFormat = "NONE" THEN "ERROR: Problem writing FASTA file!"
               ELSE "ERROR: Problem writing FASTQ file!")
    /\ UNCHANGED <<options, tagId, records, qualityFormatGuess, formatGuess, outFormat,
                   qualityConversionTable, updated, bestGuessCalls, faidx, trimmer>>

\* One iteration of the FASTA loop.
WriteFastaRecord ==
    /\ pc = "fasta"
    /\ pos <= Len(records)
    /\ Forward(FastaRecord(NewId(records[pos].id), records[pos].seq),
               "ERROR: Problem reading FASTA file!", "ERROR: Problem writing FASTA file!")
    /\ UNCHANGED <<options, tagId, records, qualityFormatGuess, formatGuess, outFormat,
                   qualityConversionTable, updated, bestGuessCalls, faidx, trimmer>>

\* Finish that stays in the loop at the end of the input.
FinishNever ==
    /\ pc \in {"rewrite", "fasta"}
    /\ pos > Len(records)
    /\ UNCHANGED vars

\* atEnd(reader) in either writing loop, then return 0.
Finish ==
    /\ pc \in {"rewrite", "fasta"}
    /\ pos > Len(records)
    /\ Return(0)
    /\ UNCHANGED <<options, tagId, records, pos, qualityFormatGuess, formatGuess, outFormat,
                   qualityConversionTable, num, out, err, updated, bestGuessCalls, failure, faidx, trimmer>>

Next ==
    \/ CheckFormat
    \/ ScanRecord
    \/ ScanEnd
    \/ GuessFormat
    \/ GivenFormat
    \/ PrintFormat
    \/ ComputeTable
    \/ WriteRecord
    \/ WriteFastaRecord
    \/ Finish

Spec == Init /\ [][Next]_vars

\* The runs that neither rename nor keep, to FASTA or to one FASTQ scale:
\* the steps a run takes do not depend on more of these options.
PlainInit ==
    /\ Init
    /\ ~options.renameToNumbers /\ ~options.keepNs
    /\ options.targetFormat \in {"FASTA", "FASTQ_SOLEXA"}

\* The program is sequential and runs on: a step that is possible is taken.
FairSpec == PlainInit /\ [][Next]_vars /\ WF_vars(Next)

\* fx_convert is not run: its variables keep the values of a run that has
\* not started and never will.
ConvertNotRun ==
    /\ options = [sourceFormat |-> "AUTO", targetFormat |-> "FASTQ_SANGER",
                  renameToNumbers |-> FALSE, keepNs |-> FALSE, guessFormat |-> FALSE]
    /\ tagId = 0
    /\ records = <<>>
    /\ pc = "off"
    /\ pos = 1
    /\ qualityFormatGuess = NewQualityFormatGuess
    /\ formatGuess = "NONE"
    /\ outFormat = "NONE"
    /\ qualityConversionTable = <<>>
    /\ num = 1
    /\ out = <<>>
    /\ err = <<>>
    /\ status = -1
    /\ updated = <<>>
    /\ bestGuessCalls = 0
    /\ failure = "none"

(***************************************************************************)
(* fx_faidx: one region is parsed and its infix is retrieved from the one  *)
(* sequence "c" of the FASTA file.                                         *)
(***************************************************************************)
\* Length of the region string, and of the sequence.
MaxRegionLen == 5

MaxSeqLen == 3

\* The chars that follow the name in a region string.
RegionChars == {":", "-", ",", "0", "1", "2", "3"}

RegionStrings ==
    {<<"c">> \o rest : rest \in UNION {[1..n -> RegionChars] : n \in 0..(MaxRegionLen - 1)}}

\* The first n bases of the sequence: adjacent bases differ.
Bases(n) == [k \in 1..n |-> <<"A", "C", "G", "T">>[((k - 1) % 4) + 1]]

DigitChars == <<"0", "1", "2", "3", "4", "5", "6", "7", "8", "9">>

\* isdigit(c)
IsDigit(c) == \E d \in 1..10 : DigitChars[d] = c

DigitValue(c) == (CHOOSE d \in 1..10 : DigitChars[d] = c) - 1

\* lexicalCast2(pos, buffer) for a buffer of digits; the buffers of the model
\* are too short to overflow an __int32.
RECURSIVE LexicalCast(_)
LexicalCast(buffer) ==
    IF buffer = <<>> THEN 0
    ELSE 10 * LexicalCast(SubSeq(buffer, 1, Len(buffer) - 1)) + DigitValue(buffer[Len(buffer)])

\* The index of the first ch in s at or after from; Len(s) + 1 if there is none.
FirstIndex(s, ch, from) ==
    IF \E i \in from..Len(s) : s[i] = ch
    THEN CHOOSE i \in from..Len(s) : s[i] = ch /\ \A j \in from..(i - 1) : s[j] # ch
    ELSE Len(s) + 1

\* Region()
NewRegion == [seqName |-> <<>>, seqId |-> -1, beginPos |-> -1, endPos |-> -1]

\* "Parse out begin position." and "Parse out end position.": digits and
\* commas only, a number above 0, adjusted to 0-based.
ParsePosition(chars) ==
    LET buffer == SelectSeq(chars, IsDigit) IN
    IF \E j \in 1..Len(chars) : ~IsDigit(chars[j]) /\ chars[j] # ","
    THEN [ok |-> FALSE, pos |-> -1]
    ELSE IF buffer = <<>> \/ LexicalCast(buffer) <= 0
    THEN [ok |-> FALSE, pos |-> -1]
    ELSE [ok |-> TRUE, pos |-> LexicalCast(buffer) - 1]

\* ok: the return value; region: the region afterwards.
parseRegion(regionString) ==
    LET colon    == FirstIndex(regionString, ":", 1)
        dash     == FirstIndex(regionString, "-", colon + 1)
        named    == [NewRegion EXCEPT !.seqName = SubSeq(regionString, 1, colon - 1)]
        beginPos == ParsePosition(SubSeq(regionString, colon + 1, dash - 1))
        endPos   == ParsePosition(SubSeq(regionString, dash + 1, Len(regionString)))
    IN  IF colon > Len(regionString)
        THEN [ok |-> TRUE, region |-> named]
        ELSE IF ~beginPos.ok
        THEN [ok |-> FALSE, region |-> named]
        ELSE IF dash > Len(regionString)
        THEN [ok |-> TRUE, region |-> [named EXCEPT !.beginPos = beginPos.pos]]
        ELSE [ok     |-> endPos.ok,
              region |-> [named EXCEPT !.beginPos = beginPos.pos, !.endPos = endPos.pos]]

\* getIdByName(faiIndex, region.seqName, seqId)
KnownSequence(seqName) == seqName = <<"c">>

\* unsigned beginPos, endPos of the infix of a sequence of the given length.
InfixBegin(region) == IF region.beginPos > 0 THEN region.beginPos ELSE 0

InfixEnd(region, sequenceLength) ==
    LET endPos == IF region.endPos > 0 /\ region.endPos < sequenceLength
                  THEN region.endPos ELSE sequenceLength
    IN  IF InfixBegin(region) > endPos THEN InfixBegin(region) ELSE endPos

\* getSequenceInfix: the chars at the 0-based positions beginPos .. endPos - 1.
getSequenceInfix(sequence, beginPos, endPos) == SubSeq(sequence, beginPos + 1, endPos)

FaidxInit ==
    /\ ConvertNotRun
    /\ trimmer = NotRun
    /\ faidx \in [pc : {"parse"}, regionString : RegionStrings,
                  sequence : {Bases(n) : n \in 1..MaxSeqLen},
                  region : {NewRegion}, out : {<<>>}, err : {""}, status : {-1}]

\* "Parse out regions."
ParseRegions ==
    /\ faidx.pc = "parse"
    /\ LET r == parseRegion(faidx.regionString) IN
       IF ~r.ok
       THEN faidx' = [faidx EXCEPT !.pc = "done", !.status = 1, !.region = r.region,
                                   !.err = "Could not parse region"]
       ELSE IF ~KnownSequence(r.region.seqName)
       THEN faidx' = [faidx EXCEPT !.pc = "done", !.status = 1, !.region = r.region,
                                   !.err = "Unknown sequence for region"]
       ELSE faidx' = [faidx EXCEPT !.pc = "retrieve", !.region = [r.region EXCEPT !.seqId = 0]]
    /\ UNCHANGED <<convertVars, trimmer>>

\* "Retrieve output infixes and write to result."
RetrieveInfix ==
    /\ faidx.pc = "retrieve"
    /\ \E wres \in WriteResults :
          LET beginPos == InfixBegin(faidx.region)
              endPos   == InfixEnd(faidx.region, Len(faidx.sequence))
              seq      == getSequenceInfix(faidx.sequence, beginPos, endPos)
          IN  IF wres # "OK"
              THEN faidx' = [faidx EXCEPT !.pc = "done", !.status = 1,
                                          !.err = "Could not write infix for region"]
              ELSE faidx' = [faidx EXCEPT !.pc = "done", !.status = 0,
                                          !.out = Append(@, [id  |-> faidx.regionString,
                                                             seq |-> seq])]
    /\ UNCHANGED <<convertVars, trimmer>>

FaidxNext ==
    \/ ParseRegions
    \/ RetrieveInfix

SpecFaidx == FaidxInit /\ [][FaidxNext]_vars

(***************************************************************************)
(* fx_trimmer: the loop of main over the records.                          *)
(***************************************************************************)
\* Number of records, and length of a record.
MaxReads == 2

MaxReadLen == 3

\* Values of --offset-left and --offset-right, as counts and as percentages.
Offsets == {0, 1, 2, 50, 100, 150}

OffsetType == {"OFFSET_COUNT", "OFFSET_PERCENT"}

\* A FASTQ record of n bases: as many quality chars as bases.
Read(n) == [id |-> "r", seq |-> Bases(n), qual |-> [k \in 1..n |-> 73]]

Reads == UNION {[1..n -> {Read(l) : l \in 0..MaxReadLen}] : n \in 0..MaxReads}

\* round(0.01 * offset * length(seq)): the double product is rounded half
\* away from zero.
RoundPercent(offset, length) == (2 * offset * length + 100) \div 200

\* "Compute offsets."
Offset(offsetType, offset, length) ==
    IF offsetType = "OFFSET_COUNT" THEN offset ELSE RoundPercent(offset, length)

\* unsigned endPos = length(seq) - offsetRight, set to 0 where it wrapped.
EndPos(offsetRight, length) == IF offsetRight > length THEN 0 ELSE length - offsetRight

\* unsigned beginPos, lowered to endPos.
BeginPos(offsetLeft, offsetRight, length) ==
    LET beginPos == IF offsetLeft > length THEN length ELSE offsetLeft
    IN  IF EndPos(offsetRight, length) < beginPos THEN EndPos(offsetRight, length) ELSE beginPos

\* The record written for a record read: seq = infix(seq, beginPos, endPos),
\* id and qual as read.
Trimmed(rec, opts) ==
    LET length      == Len(rec.seq)
        offsetLeft  == Offset(opts.offsetType, opts.offsetLeft, length)
        offsetRight == Offset(opts.offsetType, opts.offsetRight, length)
        beginPos    == BeginPos(offsetLeft, offsetRight, length)
        endPos      == EndPos(offsetRight, length)
    IN  [id |-> rec.id, seq |-> SubSeq(rec.seq, beginPos + 1, endPos), qual |-> rec.qual,
         beginPos |-> beginPos, endPos |-> endPos]

TrimmerInit ==
    /\ ConvertNotRun
    /\ faidx = NotRun
    /\ trimmer \in [pc : {"trim"},
                    options : [offsetType : OffsetType, offsetLeft : Offsets,
                               offsetRight : Offsets],
                    records : Reads, pos : {1}, out : {<<>>}, status : {-1}]

\* One iteration of the loop: readRecord, the infix, writeRecord.
TrimRecord ==
    /\ trimmer.pc = "trim"
    /\ trimmer.pos <= Len(trimmer.records)
    /\ \E res \in {"OK", "ERROR"}, wres \in WriteResults :
          IF res # "OK" \/ wres # "OK"
          THEN trimmer' = [trimmer EXCEPT !.pc = "done", !.status = 1, !.pos = @ + 1]
          ELSE trimmer' = [trimmer EXCEPT
                              !.pos = @ + 1,
                              !.out = Append(@, Trimmed(trimmer.records[trimmer.pos],
                                                        trimmer.options))]
    /\ UNCHANGED <<convertVars, faidx>>

\* atEnd(inStream), then return 0.
TrimFinish ==
    /\ trimmer.pc = "trim"
    /\ trimmer.pos > Len(trimmer.records)
    /\ trimmer' = [trimmer EXCEPT !.pc = "done", !.status = 0]
    /\ UNCHANGED <<convertVars, faidx>>

TrimmerNext ==
    \/ TrimRecord
    \/ TrimFinish

SpecTrimmer == TrimmerInit /\ [][TrimmerNext]_vars

(***************************************************************************)
(* Properties.                                                             *)
(***************************************************************************)
Range(f) == {f[x] : x \in DOMAIN f}

\* The legal band of quality bytes.
InBand(b) == b >= 33 /\ b <= 104

AllInBand(quals) == \A j \in 1..Len(quals) : InBand(quals[j])

\* The bytes of the quality strings the guess was updated with.
Observed == UNION {Range(updated[k]) : k \in 1..Len(updated)}

\* The formats whose flag is still true.
Possible ==
    {f \in Concrete :
        \/ f = "SANGER" /\ qualityFormatGuess.sanger
        \/ f = "SOLEXA" /\ qualityFormatGuess.solexa
        \/ f = "ILLUMINA" /\ qualityFormatGuess.illumina}

CouldBeLine(f) ==
    CASE f = "SANGER"   -> "Could be Sanger."
      [] f = "SOLEXA"   -> "Could be Solexa."
      [] f = "ILLUMINA" -> "Could be Illumina."

\* The records written, without the text put to the output.
RecordsOut == SelectSeq(out, LAMBDA item : item.kind # "text")

AutoDetect == tagId = 2 /\ options.sourceFormat = "AUTO"

\* C1: updateQualityFormatGuess fails on a quality byte below 33 or above
\* 104: once it was called on a quality string with such a byte, the run has
\* ended with status 1 and the byte is reported.
C1_InvalidQualityFails ==
    (\E k \in 1..Len(updated) : ~AllInBand(updated[k]))
        => (pc = "done" /\ status = 1 /\ Len(updated) <= Len(records)
            /\ \E m \in Range(err) : m = "ERROR: Invalid quality 200!" \/ m = "ERROR: Invalid quality -56!")

\* C2: an update with a quality string whose bytes are all in [33,104] keeps
\* a flag exactly if it was set and no byte is beyond the bound of its format:
\* above 74 for Sanger, below 59 for Solexa, below 64 for Illumina.
C2_UpdateNarrows ==
    [][updated' # updated =>
          LET quals == updated'[Len(updated')]
              old   == qualityFormatGuess
              new   == qualityFormatGuess'
          IN  AllInBand(quals) =>
                /\ new.sanger = (old.sanger /\ \A j \in 1..Len(quals) : ~(quals[j] > 74))
                /\ new.solexa = (old.solexa /\ \A j \in 1..Len(quals) : ~(quals[j] < 59))
                /\ new.illumina = (old.illumina /\ \A j \in 1..Len(quals) : ~(quals[j] < 64))
      ]_vars

\* A byte above 74 in the band has cleared the flag of Sanger and no other.
C2_Witness ==
    /\ updated # <<>>
    /\ \A k \in 1..Len(updated) : AllInBand(updated[k])
    /\ 75 \in Observed
    /\ qualityFormatGuess = [sanger |-> FALSE, solexa |-> TRUE, illumina |-> TRUE]

\* C3: the three flags start true and no step sets a flag that is false.
C3_Monotonic ==
    /\ qualityFormatGuess = NewQualityFormatGuess
    /\ [][/\ qualityFormatGuess'.sanger => qualityFormatGuess.sanger
          /\ qualityFormatGuess'.solexa => qualityFormatGuess.solexa
          /\ qualityFormatGuess'.illumina => qualityFormatGuess.illumina]_vars

\* Sanger was excluded by the first record and stays so after a second
\* record that Sanger allows.
C3_Witness ==
    /\ updated = <<(<<75>>), (<<74>>)>>
    /\ ~qualityFormatGuess.sanger

\* C4: bestGuess gives a format exactly if one flag is true, and then the
\* format of that flag; otherwise it gives NONE, the run ends with an error
\* and the diagnostics name exactly the formats whose flag is true.
C4_BestGuess ==
    bestGuessCalls > 0 =>
        /\ formatGuess \in Concrete <=> Cardinality(Possible) = 1
        /\ formatGuess \in Concrete => Possible = {formatGuess}
        /\ formatGuess \notin Concrete =>
              /\ formatGuess = "NONE"
              /\ status = 1
              /\ \A f \in Concrete : CouldBeLine(f) \in Range(err) <=> f \in Possible

\* Solexa is the only format left and it is the guess.
C4_Witness ==
    /\ bestGuessCalls > 0
    /\ Possible = {"SOLEXA"}
    /\ formatGuess = "SOLEXA"

\* C5: if all quality bytes seen are in [33,58] and there is at least one,
\* only the flag of Sanger is left and the guess is Sanger.
C5_LowBytesGiveSanger ==
    (bestGuessCalls > 0 /\ Observed # {} /\ \A b \in Observed : b >= 33 /\ b <= 58) =>
        /\ qualityFormatGuess = [sanger |-> TRUE, solexa |-> FALSE, illumina |-> FALSE]
        /\ formatGuess = "SANGER"

C5_Witness ==
    /\ bestGuessCalls > 0
    /\ Observed = {58}
    /\ Len(updated) = 2

\* C6: if all quality bytes seen are in [64,74], all three flags are left,
\* the guess is NONE and the run ends with an error that names Sanger, Solexa
\* and Illumina.
C6_MiddleBytesAmbiguous ==
    (bestGuessCalls > 0 /\ \A b \in Observed : b >= 64 /\ b <= 74) =>
        /\ qualityFormatGuess = NewQualityFormatGuess
        /\ formatGuess = "NONE"
        /\ status = 1
        /\ \A f \in Concrete : CouldBeLine(f) \in Range(err)

C6_Witness ==
    /\ bestGuessCalls > 0
    /\ Observed = {74}
    /\ formatGuess = "NONE"

C8_FatalBeforeOutput ==
    ((tagId = 0 /\ pc # "check") \/ (bestGuessCalls > 0 /\ Cardinality(Possible) # 1)) =>
        /\ pc = "done"
        /\ status = 1
        /\ out = <<>>

\* An ambiguous guess when only the format was asked for.
C8_Witness ==
    /\ bestGuessCalls > 0
    /\ Cardinality(Possible) = 2
    /\ options.guessFormat
    /\ pc = "done"

\* C9: no assertion of buildConversionTable fails, and the table it built
\* has an entry strictly between 0 and 255 for every byte.
C9_Totality ==
    /\ "Assertion failed!" \notin Range(err)
    /\ qualityConversionTable # <<>> =>
          /\ DOMAIN qualityConversionTable = Byte
          /\ \A b \in Byte : qualityConversionTable[b] > 0 /\ qualityConversionTable[b] < 255

\* The table from Sanger to Solexa where the conversion of -inf gave INT_MAX.
C9_Witness ==
    /\ qualityConversionTable # <<>>
    /\ formatGuess = "SANGER"
    /\ outFormat = "SOLEXA"
    /\ qualityConversionTable[33] = 126

\* C10: the table from Sanger to Solexa maps byte 73 to byte 104.
C10_Sanger73ToSolexa104 ==
    (qualityConversionTable # <<>> /\ formatGuess = "SANGER" /\ outFormat = "SOLEXA")
        => qualityConversionTable[73] = 104

\* round(<double>) of a double kept in thousandths.
RoundDouble(m) == (2 * m + Milli) \div (2 * Milli)

Clamp(x, lo, hi) == IF x < lo THEN lo ELSE IF x > hi THEN hi ELSE x

\* The requantization with rounding to the nearest integer; -inf is clamped
\* to the lowest score.
ReferenceQuality(source, target, i) ==
    LET p == Probability(source, i) IN
    CASE target = "SANGER"   -> 33 + Clamp(RoundDouble(NegTenLog10(p)), 0, 93)
      [] target = "SOLEXA"   ->
            64 + (IF OddsInfinite(p) THEN -5
                  ELSE Clamp(RoundDouble(NegTenLog10Odds(p)), -5, 62))
      [] target = "ILLUMINA" -> 64 + Clamp(RoundDouble(NegTenLog10(p)), 0, 62)

TableBuilt == qualityConversionTable # <<>>

\* C11: a table built with the same source and target, Sanger or Solexa,
\* maps every byte from the lowest source value up to 126 to itself.
C11_RoundTripIdentity ==
    (TableBuilt /\ formatGuess = outFormat /\ formatGuess \in {"SANGER", "SOLEXA"}) =>
        \A i \in From(formatGuess)..To : qualityConversionTable[i] = i

\* C12: for the targets Sanger and Solexa, every entry from the lowest source
\* value up to 126 is the requantization with rounding to the nearest score.
C12_RoundsToNearest ==
    (TableBuilt /\ outFormat \in {"SANGER", "SOLEXA"}) =>
        \A i \in From(formatGuess)..To :
            qualityConversionTable[i] = ReferenceQuality(formatGuess, outFormat, i)

\* C13: for the target Illumina, every entry from the lowest source value up
\* to 126 is 64 plus the rounded Phred score clamped to [0,62].
C13_IlluminaTarget ==
    (TableBuilt /\ outFormat = "ILLUMINA") =>
        \A i \in From(formatGuess)..To :
            qualityConversionTable[i] = ReferenceQuality(formatGuess, outFormat, i)

\* The k-th record of the input was forwarded as the k-th record of the output.
SameRecord(k) ==
    /\ RecordsOut[k].seq = records[k].seq
    /\ options.renameToNumbers \/ RecordsOut[k].id = records[k].id

\* C14: when the source scale equals the target scale, every record forwarded
\* carries the quality string that was read, byte for byte.
C14_SameScaleUntouched ==
    (outFormat \in Concrete /\ formatGuess = outFormat) =>
        \A k \in 1..Len(RecordsOut) :
            RecordsOut[k].kind = "fastq" /\ RecordsOut[k].qual = records[k].qual

\* Two records were forwarded between equal scales, one with a byte the table
\* would have changed.
C14_Witness ==
    /\ outFormat \in Concrete /\ formatGuess = outFormat
    /\ Len(RecordsOut) = 2
    /\ \E k \in 1..2 : \E j \in 1..Len(records[k].qual) :
          qualityConversionTable[records[k].qual[j]] # records[k].qual[j]

\* C15: when the source and the target scale differ, every record forwarded
\* carries a quality string of the same length whose k-th byte is the table
\* entry of the k-th byte read, the byte taken as 0..255.
C15_TableApplied ==
    (outFormat \in Concrete /\ formatGuess # outFormat) =>
        \A k \in 1..Len(RecordsOut) :
            /\ RecordsOut[k].kind = "fastq"
            /\ Len(RecordsOut[k].qual) = Len(records[k].qual)
            /\ \A j \in 1..Len(records[k].qual) :
                  RecordsOut[k].qual[j] = qualityConversionTable[records[k].qual[j]]

\* A record of two quality bytes, one of them above 127, was converted.
C15_Witness ==
    /\ outFormat \in Concrete /\ formatGuess # outFormat
    /\ pc = "done" /\ status = 0
    /\ \E k \in 1..Len(RecordsOut) :
          /\ Len(RecordsOut[k].qual) = 2
          /\ \E j \in 1..2 : records[k].qual[j] > 127

\* C16: for the target FASTA no table is built and every record forwarded
\* is without a quality string.
C16_FastaTargetNoTable ==
    options.targetFormat = "FASTA" =>
        /\ ~TableBuilt
        /\ \A k \in 1..Len(RecordsOut) : RecordsOut[k].kind = "fasta"

\* Two FASTQ records with quality strings were forwarded to FASTA.
C16_Witness ==
    /\ options.targetFormat = "FASTA" /\ tagId = 2
    /\ Len(RecordsOut) = 2
    /\ pc = "done" /\ status = 0

Digits == <<"0", "1", "2", "3", "4", "5", "6", "7", "8", "9">>

\* The decimal text of a natural number.
RECURSIVE Decimal(_)
Decimal(n) == IF n < 10 THEN Digits[n + 1] ELSE Decimal(n \div 10) \o Digits[(n % 10) + 1]

\* C17: with renaming to numbers the k-th record forwarded has the decimal
\* text of k as its identifier, for FASTQ and FASTA input.
C17_RenumberedIds ==
    options.renameToNumbers =>
        \A k \in 1..Len(RecordsOut) : RecordsOut[k].id = Decimal(k)

\* Two FASTQ records were renamed and converted; the second was named "a".
C17_Witness ==
    /\ options.renameToNumbers /\ tagId = 2
    /\ outFormat \in Concrete /\ formatGuess # outFormat
    /\ Len(RecordsOut) = 2
    /\ records[2].id # "2" /\ RecordsOut[2].id = "2"

\* The output has one record per record of the input, in the order of the input.
OnePerRecord ==
    /\ Len(RecordsOut) = Len(records)
    /\ \A k \in 1..Len(records) : SameRecord(k)

\* The run stops after the report of the format.
GuessOnly == tagId = 2 /\ options.guessFormat

\* C18 as stated: every run that ends without error has forwarded one record
\* per record of the input, in order, from the first on.
C18_OnePerRecord ==
    (pc = "done" /\ status = 0) => OnePerRecord

\* C18, amended: every run that ends without error and does not stop after
\* the report of the format has forwarded one record per record of the input,
\* in order, from the first on.
C18_OnePerRecordWritten ==
    (pc = "done" /\ status = 0 /\ ~GuessOnly) => OnePerRecord

\* A run of two passes ended without error after two records.
C18_Witness ==
    /\ AutoDetect /\ ~options.guessFormat
    /\ pc = "done" /\ status = 0
    /\ Len(updated) = 2 /\ Len(RecordsOut) = 2

\* The text put to the output.
RECURSIVE Text(_)
Text(items) ==
    IF items = <<>> THEN ""
    ELSE (IF Head(items).kind = "text" THEN Head(items).text ELSE "") \o Text(Tail(items))

ContentTypeLines == {"content-type: text/x-fastq-" \o scale \o "\n" :
                        scale \in {"sanger", "solexa", "illumina"}}

\* C19: with the option to guess only, no record is ever forwarded and a run
\* that ends without error has written exactly one content-type line.
C19_GuessOnlyOneLine ==
    options.guessFormat =>
        /\ RecordsOut = <<>>
        /\ (pc = "done" /\ status = 0) => Text(out) \in ContentTypeLines

\* The records forwarded are the first records of the input.
IsPrefix ==
    /\ Len(RecordsOut) <= Len(records)
    /\ \A k \in 1..Len(RecordsOut) : SameRecord(k)

\* The failures that C20 is about, and those among them the code treats so.
Failures == {"eof", "read", "write"}

FatalFailures == {"read", "write"}

\* C20 as stated: after any failed read or write the run has returned 1 with
\* a prefix of the output, and no step reads or forwards a record.
C20_AnyFailureFatal ==
    /\ []((failure \in Failures) => (pc = "done" /\ status = 1 /\ IsPrefix))
    /\ [][(failure \in Failures) => (pos' = pos /\ out' = out)]_vars

\* C20, amended: the same after a failed write, a failed read of a writing
\* loop and a failed read of the guessing loop other than EOF_BEFORE_SUCCESS.
C20_FailureFatal ==
    /\ []((failure \in FatalFailures) => (pc = "done" /\ status = 1 /\ IsPrefix))
    /\ [][(failure \in FatalFailures) => (pos' = pos /\ out' = out)]_vars

\* The write of the second of two records failed after the first was forwarded.
C20_Witness ==
    /\ failure = "write"
    /\ Len(records) = 2 /\ Len(RecordsOut) = 1
    /\ status = 1

\* The identifier the k-th record is forwarded with.
IdOut(k) == IF options.renameToNumbers THEN Decimal(k) ELSE records[k].id

\* C21: for FASTA input the output is FASTA and is given by the input and the
\* renaming alone, whatever the source and the target format: every item
\* written is the FASTA record of the input record at its place, and a run
\* that ends without error has forwarded them all.
C21_FastaIgnoresFormats ==
    tagId = 1 =>
        /\ \A k \in 1..Len(out) :
              k <= Len(records) /\ out[k] = FastaRecord(IdOut(k), records[k].seq)
        /\ (pc = "done" /\ status = 0) => Len(out) = Len(records)

\* Two FASTA records were forwarded under a FASTQ source and target format.
C21_Witness ==
    /\ tagId = 1
    /\ options.sourceFormat = "FASTQ_SOLEXA" /\ options.targetFormat = "FASTQ_ILLUMINA"
    /\ pc = "done" /\ status = 0
    /\ Len(out) = 2

\* Every quality byte of the input lies in [33,104].
InputInBand == \A k \in 1..Len(records) : AllInBand(records[k].qual)

\* Every quality byte written lies in lo..hi.
OutputWithin(lo, hi) ==
    \A k \in 1..Len(out) :
        out[k].kind = "fastq" =>
            \A j \in 1..Len(out[k].qual) : out[k].qual[j] >= lo /\ out[k].qual[j] <= hi

\* C22 as stated: if every quality byte of the input lies in [33,104], every
\* quality byte forwarded lies in [33,104].
C22_OutputInBand == InputInBand => OutputWithin(33, 104)

\* C22, amended: if every quality byte of the input lies in [33,104], every
\* quality byte forwarded lies in [33,126].
C22_OutputPrintable == InputInBand => OutputWithin(33, 126)

\* A record of in-band bytes was converted to a byte above 104.
C22_Witness ==
    /\ InputInBand
    /\ pc = "done" /\ status = 0
    /\ ~OutputWithin(33, 104)

\* C26 as stated: for the target Illumina every entry from the lowest source
\* value up to 126 is 126.
C26_IlluminaConstant ==
    (TableBuilt /\ outFormat = "ILLUMINA") =>
        \A i \in From(formatGuess)..To : qualityConversionTable[i] = 126

\* C26, amended: for the target Illumina every entry from the lowest source
\* value up to 126 is 126, except the entry of the lowest value of the
\* sources Sanger and Illumina (Phred score 0), which is 64.
C26_IlluminaConstantButZero ==
    (TableBuilt /\ outFormat = "ILLUMINA") =>
        \A i \in From(formatGuess)..To :
            qualityConversionTable[i] =
                IF i = From(formatGuess) /\ formatGuess # "SOLEXA" THEN 64 ELSE 126

\* Records were converted from Sanger to Illumina.
C26_Witness ==
    /\ TableBuilt /\ outFormat = "ILLUMINA" /\ formatGuess = "SANGER"
    /\ pc = "done" /\ status = 0
    /\ Len(RecordsOut) = 2

\* The minimum and the fallback symbol of a target scale.
MinimumSymbol(target) ==
    CASE target = "SANGER" -> 33 [] target = "SOLEXA" -> 59 [] target = "ILLUMINA" -> 64

FallbackSymbol(target) ==
    CASE target = "SANGER" -> 73 [] target = "SOLEXA" -> 104 [] target = "ILLUMINA" -> 104

\* C27: in the finished table every byte below the lowest source value maps
\* to the minimum symbol of the target and every byte of [127,255] to its
\* fallback symbol.
C27_DefaultFill ==
    TableBuilt =>
        LET t == qualityConversionTable
            minimum == MinimumSymbol(outFormat)
            fallback == FallbackSymbol(outFormat)
        IN  /\ \A i \in 0..(From(formatGuess) - 1) : t[i] = minimum
            /\ \A i \in 127..255 : t[i] = fallback

\* A record with a byte below the source range and a byte above 126 was
\* converted from Solexa to Sanger.
C27_Witness ==
    /\ TableBuilt /\ formatGuess = "SOLEXA" /\ outFormat = "SANGER"
    /\ \E k \in 1..Len(RecordsOut) :
          records[k].qual = <<58, 200>> /\ RecordsOut[k].qual = <<33, 73>>

\* C28: whenever Illumina is still possible so is Solexa, and a format that
\* was detected is never Illumina.
C28_IlluminaImpliesSolexa ==
    /\ qualityFormatGuess.illumina => qualityFormatGuess.solexa
    /\ AutoDetect => formatGuess # "ILLUMINA"

\* Only bytes above 74 were seen: Solexa and Illumina remain and bestGuess
\* gave no format.
C28_Witness ==
    /\ AutoDetect
    /\ qualityFormatGuess = [sanger |-> FALSE, solexa |-> TRUE, illumina |-> TRUE]
    /\ bestGuessCalls = 1 /\ formatGuess = "NONE"

\* C29 as stated: the table does not fall anywhere over the 256 bytes.
C29_Monotone ==
    TableBuilt =>
        \A a \in 0..254 : qualityConversionTable[a] <= qualityConversionTable[a + 1]

\* The entry whose value is the result of an undefined conversion.
UndefinedEntry(i) ==
    outFormat = "SOLEXA" /\ formatGuess # "SOLEXA" /\ i = From(formatGuess)

\* C29, amended: the table does not fall over the bytes 0 to 126, the entry
\* of undefined value left out, and is constant over the bytes 127 to 255.
C29_MonotoneTo126 ==
    TableBuilt =>
        LET t == qualityConversionTable
            u == IF UndefinedEntry(From(formatGuess)) THEN From(formatGuess) ELSE -1
        IN  /\ \A a \in 0..125 : (a # u /\ a + 1 # u) => t[a] <= t[a + 1]
            /\ u > 0 => t[u - 1] <= t[u + 1]
            /\ \A a \in 127..254 : t[a] = t[a + 1]

\* A table from Sanger to Solexa was built and records were converted with it.
C29_Witness ==
    /\ TableBuilt /\ formatGuess = "SANGER" /\ outFormat = "SOLEXA"
    /\ qualityConversionTable[74] < qualityConversionTable[75]
    /\ Len(RecordsOut) = 1

Terminated == pc \in {"done", "abort"}

\* C25: every run ends, and every iteration of the guessing loop and of the
\* writing loops that does not end the run consumes one record.
C25_Terminates ==
    /\ <>Terminated
    /\ [][(pc \in {"scan", "rewrite", "fasta"} /\ pc' = pc) => pos' = pos + 1]_vars

\* A run of two passes over two records has returned after the last record.
C25_Witness ==
    /\ AutoDetect /\ options.targetFormat = "FASTA"
    /\ Terminated /\ Len(records) = 2 /\ pos = 3
    /\ failure = "none"

\* C24: for a region "c:START-END" with 1 <= START <= END <= length the
\* sequence written is that of the chars START to END, one-based and both
\* included.
C24_RegionInclusive ==
    \A start \in 1..9 : \A end \in start..9 :
        (/\ faidx.regionString = <<"c", ":", DigitChars[start + 1], "-", DigitChars[end + 1]>>
         /\ end <= Len(faidx.sequence)
         /\ faidx.pc = "done" /\ faidx.status = 0)
        => faidx.out[1].seq = SubSeq(faidx.sequence, start, end)

\* C30: every record written has as many quality chars as bases, and its
\* bases are the infix [beginPos, endPos) of the bases read, with
\* 0 <= beginPos <= endPos <= length.
C30_QualityLengthKept ==
    \A k \in 1..Len(trimmer.out) :
        LET written == trimmer.out[k]
            read    == trimmer.records[k]
        IN  /\ Len(written.qual) = Len(written.seq)
            /\ 0 <= written.beginPos /\ written.beginPos <= written.endPos
            /\ written.endPos <= Len(read.seq)
            /\ written.seq = SubSeq(read.seq, written.beginPos + 1, written.endPos)

=============================================================================
